---- MODULE Spec2Model ----
(***************************************************************************)
(* Model of the hypergraph coordinator (src/src/hypergraph.rs): the module *)
(* registry, the synergy matrix, the rolling performance metrics and the   *)
(* bounded audit history, with the operations of HypergraphCoordinator.    *)
(*                                                                         *)
(* f64 values are modelled as exact non-negative rationals <<num, den>> in *)
(* lowest terms; Duration values as whole nanoseconds.                     *)
(***************************************************************************)
EXTENDS Integers, Sequences, FiniteSets, TLC

VARIABLES
    module_registry,      \* IndexMap<String, ModuleMetrics>: records in insertion order
    synergy_matrix,       \* HashMap<(String, String), f64>
    audit_history,        \* Vec<ModuleAudit>
    performance_metrics,  \* the stored fields of PerformanceMetrics
    now,                  \* the monotonic clock read by Instant::now()
    rwlock,               \* the state of the four parking_lot::RwLock
    pc,                   \* per thread: where it is in the call it is making
    arg,                  \* per thread: the arguments of that call
    idx,                  \* per thread: the position of its loop over the registry
    HYPERGRAPH_COORDINATOR,  \* the OnceCell of the global coordinator
    CONFIG_REINFORCEMENT,    \* the OnceCell of the global reinforcement, with its fields
    init_calls,           \* the number of init_* calls made, which numbers the instances
    result                \* what the last call of a global function returned

coordVars == <<module_registry, synergy_matrix, audit_history, performance_metrics>>
threadVars == <<rwlock, pc, arg, idx>>
globalVars == <<HYPERGRAPH_COORDINATOR, CONFIG_REINFORCEMENT, init_calls, result>>
vars == <<module_registry, synergy_matrix, audit_history, performance_metrics, now,
          rwlock, pc, arg, idx,
          HYPERGRAPH_COORDINATOR, CONFIG_REINFORCEMENT, init_calls, result>>

(***************************************************************************)
(* Bounds of the model                                                     *)
(***************************************************************************)
MaxErrors == 1          \* Spec: record_error is offered while error_count is below this
MaxOps == 1             \* Spec: record_activity is offered while total_operations is below this
MaxHistory == 1         \* Spec: audit_core_modules is offered while the history is shorter
MaxAuditErrors == 11    \* SpecAudit: as MaxErrors; passes the Critical threshold
MaxAuditOps == 1        \* SpecAudit: as MaxOps
MaxAuditHistory == 3    \* SpecAudit: as MaxHistory
MaxConcErrors == 1      \* SpecConc: as MaxErrors
MaxConcOps == 2         \* SpecConc: as MaxOps
MaxConcHistory == 1     \* SpecConc: as MaxHistory
MaxEdgeErrors == 1      \* SpecEdges: as MaxErrors
MaxEdgeOps == 1         \* SpecEdges: as MaxOps
MaxEdgeHistory == 1     \* SpecEdges: as MaxHistory
MaxFullHistory == 3     \* SpecFull: as MaxHistory
MaxInitCalls == 2       \* SpecInit: init_* is offered while fewer calls have been made
MaxInitErrors == 1      \* SpecInit: as MaxErrors
MaxInitOps == 1         \* SpecInit: as MaxOps
MaxInitHistory == 1     \* SpecInit: as MaxHistory
MaxGlobalErrors == 1    \* SpecGlobal: as MaxErrors
MaxGlobalOps == 1       \* SpecGlobal: as MaxOps
MaxGlobalHistory == 2   \* SpecGlobal: as MaxHistory
MaxCountErrors == 2     \* SpecCounts: as MaxErrors
MaxCountOps == 2        \* SpecCounts: as MaxOps
MaxScheduleTime == 700  \* SpecSchedule: the clock is advanced while it is below this
MaxScheduleOps == 6     \* SpecSchedule: as MaxOps
MaxThresholdErrors == 21  \* SpecThreshold: as MaxErrors; passes max_module_errors
MaxThresholdOps == 204    \* SpecThreshold: as MaxOps; passes ten times max_module_errors
MaxHealErrors == 11     \* SpecHeal: as MaxErrors; passes the Critical threshold
MaxHealHistory == 6     \* SpecHeal: as MaxHistory

Names == {"a", "b"}
Pairs == {<<"a", "b">>, <<"b", "a">>}
AuditNames == {"a", "b", "c"}
AuditPairs == {<<"a", "b">>}
FullPairs == {<<"a", "b">>, <<"a", "c">>, <<"b", "c">>}
EdgePairs == {<<"a", "a">>, <<"a", "b">>, <<"a", "ghost">>}
ConcNames == {"a"}
GlobalNames == {"config", "w"}
HealNames == {"config", "w", "x"}
ConcPairs == {<<"a", "b">>, <<"b", "a">>}
OpTypes == {"llm_completion", "validation"}
ScheduleTicks == {100, 200}
OneMilli == 1000000
Durations == {OneMilli}

(***************************************************************************)
(* f64 arithmetic, exact                                                   *)
(***************************************************************************)
RECURSIVE GCD(_, _)
GCD(a, b) == IF b = 0 THEN a ELSE GCD(b, a % b)

Rat(n, d) == IF n = 0 THEN <<0, 1>> ELSE <<n \div GCD(n, d), d \div GCD(n, d)>>
\* operands are reduced before they are multiplied, to stay within 32-bit integers
RatAdd(x, y) ==
    LET g == GCD(x[2], y[2])
    IN Rat(x[1] * (y[2] \div g) + y[1] * (x[2] \div g), (x[2] \div g) * y[2])
RatMul(x, y) ==
    LET a == Rat(x[1], y[2])
        b == Rat(y[1], x[2])
    IN Rat(a[1] * b[1], a[2] * b[2])
RatDiv(x, y) == RatMul(x, <<y[2], y[1]>>)
RatLt(x, y) == x[1] * y[2] < y[1] * x[2]
RatLe(x, y) == x[1] * y[2] <= y[1] * x[2]
Zero == <<0, 1>>
One == <<1, 1>>
Half == <<1, 2>>

Strengths == {Rat(1, 10), Rat(9, 10)}
UnitStrengths == {Zero, One}
FullStrengths == {Zero, Rat(9, 10), One}

(***************************************************************************)
(* IndexMap                                                                *)
(***************************************************************************)
keys(reg) == {reg[i].name : i \in 1..Len(reg)}
contains_key(reg, name) == \E i \in 1..Len(reg) : reg[i].name = name
get_index_of(reg, name) == CHOOSE i \in 1..Len(reg) : reg[i].name = name
get(reg, name) == reg[get_index_of(reg, name)]

\* a bug: an existing key is removed and the new value goes to the end
insert_at_end(reg, name, metrics) ==
    Append(SelectSeq(reg, LAMBDA r : r.name /= name), metrics)

\* IndexMap::insert: an existing key keeps its place and gets the new value
insert(reg, name, metrics) ==
    IF contains_key(reg, name)
    THEN [reg EXCEPT ![get_index_of(reg, name)] = metrics]
    ELSE Append(reg, metrics)

\* HashMap::insert
matrix_insert(m, key, strength) ==
    [p \in (DOMAIN m) \cup {key} |-> IF p = key THEN strength ELSE m[p]]

(***************************************************************************)
(* HypergraphCoordinator: the effect of each operation on each structure   *)
(***************************************************************************)
\* a bug: a registration estimates the memory the module uses
new_metrics_with_memory(name, t) ==
    [name |-> name, active_connections |-> {}, message_count |-> 0,
     error_count |-> 0, last_activity |-> t, memory_usage |-> 1024,
     cognitive_load |-> Zero]

new_metrics(name, t) ==
    [name |-> name, active_connections |-> {}, message_count |-> 0,
     error_count |-> 0, last_activity |-> t, memory_usage |-> 0,
     cognitive_load |-> Zero]

\* a bug: a module that is registered again keeps its connections
register_module_keeping_connections(reg, name, t) ==
    IF contains_key(reg, name)
    THEN insert(reg, name, [new_metrics(name, t) EXCEPT
                               !.active_connections = get(reg, name).active_connections])
    ELSE insert(reg, name, new_metrics(name, t))

register_module(reg, name, t) == insert(reg, name, new_metrics(name, t))

\* registry.get_mut(x).active_connections.insert(y), skipped when x is absent
add_connection(reg, x, y) ==
    [i \in 1..Len(reg) |->
        IF reg[i].name = x
        THEN [reg[i] EXCEPT !.active_connections = @ \cup {y}]
        ELSE reg[i]]

\* a bug: only the first endpoint learns of the connection
establish_connection_registry_oneway(reg, a, b) ==
    add_connection(reg, a, b)

establish_connection_registry(reg, a, b) ==
    add_connection(add_connection(reg, a, b), b, a)

establish_connection_forward(m, a, b, strength) == matrix_insert(m, <<a, b>>, strength)

\* a bug: the reverse entry is not written
establish_connection_backward_skipped(m, a, b, strength) == m

establish_connection_backward(m, a, b, strength) == matrix_insert(m, <<b, a>>, strength)

establish_connection_matrix(m, a, b, strength) ==
    establish_connection_backward(establish_connection_forward(m, a, b, strength),
                                  a, b, strength)

load_factor(op) ==
    CASE op = "llm_completion" -> Rat(8, 10)
      [] op = "embedding" -> Rat(5, 10)
      [] op = "session_management" -> Rat(3, 10)
      [] op = "rag_query" -> Rat(6, 10)
      [] op = "hypergraph_update" -> Rat(9, 10)
      [] OTHER -> Rat(4, 10)

NanosPerSec == 1000000000
as_secs_f64(dur) == Rat(dur, NanosPerSec)

\* a bug: an unknown name is inserted instead of skipped
record_activity_registry_upsert(reg, name, op, dur, t) ==
    IF contains_key(reg, name)
    THEN [i \in 1..Len(reg) |->
            IF reg[i].name = name
            THEN [reg[i] EXCEPT !.message_count = @ + 1, !.last_activity = t]
            ELSE reg[i]]
    ELSE Append(reg, [new_metrics(name, t) EXCEPT !.message_count = 1])

record_activity_registry(reg, name, op, dur, t) ==
    [i \in 1..Len(reg) |->
        IF reg[i].name = name
        THEN [reg[i] EXCEPT
                !.message_count = @ + 1,
                !.last_activity = t,
                !.cognitive_load =
                    RatAdd(RatMul(@, Rat(9, 10)),
                           RatMul(RatMul(load_factor(op), as_secs_f64(dur)), Rat(1, 10)))]
        ELSE reg[i]]

\* a bug: the operation is not counted
record_activity_perf_uncounted(perf, dur) ==
    [perf EXCEPT !.average_response_time = (9 * @ + dur) \div 10]

\* the moving average is stored as a Duration: whole nanoseconds
record_activity_perf(perf, dur) ==
    [perf EXCEPT !.total_operations = @ + 1,
                 !.average_response_time = (9 * @ + dur) \div 10]

\* a bug: an error is counted as a message as well
record_error_as_message(reg, name) ==
    [i \in 1..Len(reg) |->
        IF reg[i].name = name
        THEN [reg[i] EXCEPT !.error_count = @ + 1, !.message_count = @ + 1]
        ELSE reg[i]]

record_error(reg, name) ==
    [i \in 1..Len(reg) |->
        IF reg[i].name = name
        THEN [reg[i] EXCEPT !.error_count = @ + 1]
        ELSE reg[i]]

RECURSIVE total_strength(_, _, _)
total_strength(m, name, conns) ==
    IF conns = {} THEN Zero
    ELSE LET x == CHOOSE y \in conns : TRUE
             rest == total_strength(m, name, conns \ {x})
         IN IF <<name, x>> \in DOMAIN m THEN RatAdd(m[<<name, x>>], rest) ELSE rest

\* a bug: the module itself is counted among its possible connections
calculate_synergy_score_counting_self(reg, m, name) ==
    IF contains_key(reg, name)
    THEN LET metrics == get(reg, name)
             connection_count == Cardinality(metrics.active_connections)
             max_connections == Len(reg)
         IN IF max_connections = 0 THEN One
            ELSE LET average_strength ==
                         IF connection_count > 0
                         THEN RatDiv(total_strength(m, name, metrics.active_connections),
                                     <<connection_count, 1>>)
                         ELSE Zero
                     connectivity_factor == Rat(connection_count, max_connections)
                 IN RatAdd(RatMul(connectivity_factor, Half),
                           RatMul(average_strength, Half))
    ELSE Zero

calculate_synergy_score(reg, m, name) ==
    IF contains_key(reg, name)
    THEN LET metrics == get(reg, name)
             connection_count == Cardinality(metrics.active_connections)
             max_connections == Len(reg) - 1
         IN IF max_connections = 0 THEN One
            ELSE LET average_strength ==
                         IF connection_count > 0
                         THEN RatDiv(total_strength(m, name, metrics.active_connections),
                                     <<connection_count, 1>>)
                         ELSE Zero
                     connectivity_factor == Rat(connection_count, max_connections)
                 IN RatAdd(RatMul(connectivity_factor, Half),
                           RatMul(average_strength, Half))
    ELSE Zero

CriticalErrors == 10
StaleSeconds == 300
HistoryLimit == 1000
HistoryDrain == 500

\* a bug: the threshold is not strict
status_of_inclusive(metrics, synergy_score) ==
    IF metrics.error_count >= CriticalErrors THEN "Critical"
    ELSE IF metrics.active_connections = {} THEN "Disconnected"
    ELSE IF RatLt(synergy_score, Half) THEN "Warning"
    ELSE "Healthy"

status_of(metrics, synergy_score) ==
    IF metrics.error_count > CriticalErrors THEN "Critical"
    ELSE IF metrics.active_connections = {} THEN "Disconnected"
    ELSE IF RatLt(synergy_score, Half) THEN "Warning"
    ELSE "Healthy"

status_issue(status) ==
    CASE status = "Critical" -> <<"High error count detected">>
      [] status = "Disconnected" -> <<"Module appears disconnected from hypergraph">>
      [] status = "Warning" -> <<"Low synergy score with other modules">>
      [] OTHER -> <<>>

status_recommendation(status) ==
    CASE status = "Critical" -> <<"Review error handling and add circuit breakers">>
      [] status = "Disconnected" -> <<"Establish connections with related modules">>
      [] status = "Warning" -> <<"Improve inter-module communication patterns">>
      [] OTHER -> <<>>

module_audit(reg, m, metrics, t) ==
    LET synergy_score == calculate_synergy_score(reg, m, metrics.name)
        status == status_of(metrics, synergy_score)
        stale == t - metrics.last_activity > StaleSeconds
        loaded == RatLt(Rat(9, 10), metrics.cognitive_load)
    IN [module_name |-> metrics.name,
        status |-> status,
        synergy_score |-> synergy_score,
        hypergraph_connections |-> Cardinality(metrics.active_connections),
        last_checked |-> t,
        issues |-> status_issue(status)
                    \o (IF stale THEN <<"No recent activity detected">> ELSE <<>>)
                    \o (IF loaded THEN <<"High cognitive load detected">> ELSE <<>>),
        recommendations |-> status_recommendation(status)
                    \o (IF stale THEN <<"Verify module is active and responding">> ELSE <<>>)
                    \o (IF loaded
                        THEN <<"Consider load balancing or resource optimization">>
                        ELSE <<>>)]

\* the Vec<ModuleAudit> that audit_core_modules builds and returns
audit_core_modules(reg, m, t) ==
    [i \in 1..Len(reg) |-> module_audit(reg, m, reg[i], t)]

\* a bug: the truncation starts when the limit is reached, not when it is passed
store_history_at_limit(history, audits) ==
    LET extended == history \o audits
    IN IF Len(extended) >= HistoryLimit
       THEN SubSeq(extended, HistoryDrain + 1, Len(extended))
       ELSE extended

\* history.extend(audits), then the truncation
store_history(history, audits) ==
    LET extended == history \o audits
    IN IF Len(extended) > HistoryLimit
       THEN SubSeq(extended, HistoryDrain + 1, Len(extended))
       ELSE extended

RECURSIVE sum_field(_, _, _)
sum_field(reg, i, field) ==
    IF i = 0 THEN 0 ELSE reg[i][field] + sum_field(reg, i - 1, field)

calculate_memory_efficiency(reg) ==
    LET total_memory == sum_field(reg, Len(reg), "memory_usage")
        total_operations == sum_field(reg, Len(reg), "message_count")
    IN IF total_operations > 0
       THEN Rat(1000 * total_operations, 1000 * total_operations + total_memory)
       ELSE One

RECURSIVE sum_scores(_, _, _)
sum_scores(reg, m, i) ==
    IF i = 0 THEN Zero
    ELSE RatAdd(calculate_synergy_score(reg, m, reg[i].name), sum_scores(reg, m, i - 1))

\* a bug: the sum of the scores is not divided by the number of modules
get_performance_metrics_unaveraged(perf, reg, m) ==
    [total_operations |-> perf.total_operations,
     average_response_time |-> perf.average_response_time,
     memory_efficiency |-> calculate_memory_efficiency(reg),
     synergy_coefficient |-> sum_scores(reg, m, Len(reg))]

get_performance_metrics(perf, reg, m) ==
    [total_operations |-> perf.total_operations,
     average_response_time |-> perf.average_response_time,
     memory_efficiency |-> calculate_memory_efficiency(reg),
     synergy_coefficient |->
        IF Len(reg) > 0 THEN RatDiv(sum_scores(reg, m, Len(reg)), <<Len(reg), 1>>)
        ELSE Zero]

(***************************************************************************)
(* The global instances (once_cell::sync::OnceCell) and what the global    *)
(* functions return                                                        *)
(***************************************************************************)
\* Result<_>: error is "" for Ok(value)
Ok(call, value) == [call |-> call, error |-> "", value |-> value]
Err(call, message) == [call |-> call, error |-> message, value |-> <<>>]
NoResult == [call |-> "", error |-> "", value |-> <<>>]

CoordinatorAlreadyInitialized == "Hypergraph coordinator already initialized"
CoordinatorNotInitialized == "Hypergraph coordinator not initialized"
ReinforcementAlreadyInitialized == "Configuration reinforcement already initialized"
ReinforcementNotInitialized == "Configuration reinforcement not initialized"

\* a bug: the cell takes the new value although it is full
once_cell_set_overwrite(cell, value) == [cell |-> value, ok |-> TRUE]

\* OnceCell::set: the value is stored only in an empty cell; Err otherwise
once_cell_set(cell, value) ==
    IF cell.set THEN [cell |-> cell, ok |-> FALSE] ELSE [cell |-> value, ok |-> TRUE]

\* OnceCell::get(...).ok_or_else(...): whether the instance is there
once_cell_get(cell) == cell.set

(***************************************************************************)
(* ConfigReinforcement: the effect of its operations                       *)
(***************************************************************************)
AuditInterval == 300
DefaultConfig ==
    [max_module_errors |-> 20, synergy_threshold |-> Rat(6, 10),
     audit_interval_seconds |-> AuditInterval, enable_auto_healing |-> TRUE,
     connection_strength_decay |-> Rat(95, 100)]
\* the default, and one that never heals and audits on every validation
ReinforcementConfigs ==
    {DefaultConfig,
     [DefaultConfig EXCEPT !.enable_auto_healing = FALSE, !.audit_interval_seconds = 0]}

\* ConfigReinforcement::new, as the content of the cell
new_reinforcement(config, instance, t) ==
    [set |-> TRUE, instance |-> instance, config |-> config, last_audit |-> t]

\* format!("{:.2}") and format!("{:.1}") of a non-negative value, rounded to
\* the nearest hundredth or tenth
pad2(n) == IF n < 10 THEN "0" \o ToString(n) ELSE ToString(n)
format_2(x) ==
    LET h == (200 * x[1] + x[2]) \div (2 * x[2])
    IN ToString(h \div 100) \o "." \o pad2(h % 100)
format_1(x) ==
    LET h == (20 * x[1] + x[2]) \div (2 * x[2])
    IN ToString(h \div 10) \o "." \o ToString(h % 10)

\* perform_scheduled_audit: the recommendations for the audits, in order
RECURSIVE scheduled_audit_recommendations(_, _)
scheduled_audit_recommendations(audits, config) ==
    IF audits = <<>> THEN <<>>
    ELSE LET audit == Head(audits)
         IN (IF RatLt(audit.synergy_score, config.synergy_threshold)
             THEN <<"Module '" \o audit.module_name \o "' has low synergy score ("
                    \o format_2(audit.synergy_score) \o "). Consider reviewing connections.">>
             ELSE <<>>)
            \o (IF audit.status = "Critical"
                THEN <<"Module '" \o audit.module_name
                       \o "' is in critical state. Immediate attention required.">>
                ELSE <<>>)
            \o scheduled_audit_recommendations(Tail(audits), config)

\* a bug: the recommendation is made when the rate reaches the limit
check_error_thresholds_inclusive(metrics, config) ==
    LET error_rate == RatMul(<<metrics.total_operations, 1>>, Rat(1, 10))
    IN (IF metrics.total_operations > 0
           /\ RatLe(<<config.max_module_errors, 1>>, error_rate)
        THEN <<"High error rate detected (" \o format_1(error_rate)
               \o "). Consider implementing circuit breakers.">>
        ELSE <<>>)
       \o (IF RatLt(metrics.synergy_coefficient, config.synergy_threshold)
           THEN <<"System synergy coefficient (" \o format_2(metrics.synergy_coefficient)
                  \o ") below threshold (" \o format_2(config.synergy_threshold)
                  \o "). Review module connections.">>
           ELSE <<>>)

\* check_error_thresholds, given the metrics that the coordinator returned
check_error_thresholds(metrics, config) ==
    LET error_rate == RatMul(<<metrics.total_operations, 1>>, Rat(1, 10))
    IN (IF metrics.total_operations > 0
           /\ RatLt(<<config.max_module_errors, 1>>, error_rate)
        THEN <<"High error rate detected (" \o format_1(error_rate)
               \o "). Consider implementing circuit breakers.">>
        ELSE <<>>)
       \o (IF RatLt(metrics.synergy_coefficient, config.synergy_threshold)
           THEN <<"System synergy coefficient (" \o format_2(metrics.synergy_coefficient)
                  \o ") below threshold (" \o format_2(config.synergy_threshold)
                  \o "). Review module connections.">>
           ELSE <<>>)

\* a bug: the flag is not looked at
auto_healing_always(config) == TRUE

\* apply_auto_healing: whether anything is done at all
auto_healing_enabled(config) == config.enable_auto_healing

\* a bug: only the entry from the module to the hub is written
heal_matrix_forward_only(m, name) == establish_connection_forward(m, name, "config", Half)

\* establish_connection(module, "config", 0.5), on the matrix and on the registry
heal_matrix(m, name) == establish_connection_matrix(m, name, "config", Half)
heal_registry(reg, name) == establish_connection_registry(reg, name, "config")

\* a bug: every module without connections is reconnected, whatever its status
RECURSIVE auto_heal_unconnected(_, _, _)
auto_heal_unconnected(reg, m, audits) ==
    IF audits = <<>> THEN [registry |-> reg, matrix |-> m, actions |-> <<>>]
    ELSE LET audit == Head(audits)
             unconnected == audit.hypergraph_connections = 0
             rest == auto_heal_unconnected(
                         IF unconnected THEN heal_registry(reg, audit.module_name) ELSE reg,
                         IF unconnected THEN heal_matrix(m, audit.module_name) ELSE m,
                         Tail(audits))
         IN [rest EXCEPT !.actions =
                (IF unconnected
                 THEN <<"Reconnected disconnected module '" \o audit.module_name \o "'">>
                 ELSE <<>>) \o @]

\* the loop of apply_auto_healing over the audits: the registry, the matrix
\* and the lines it ends with
RECURSIVE auto_heal(_, _, _)
auto_heal(reg, m, audits) ==
    IF audits = <<>> THEN [registry |-> reg, matrix |-> m, actions |-> <<>>]
    ELSE LET audit == Head(audits)
             disconnected == audit.status = "Disconnected"
             rest == auto_heal(IF disconnected THEN heal_registry(reg, audit.module_name) ELSE reg,
                               IF disconnected THEN heal_matrix(m, audit.module_name) ELSE m,
                               Tail(audits))
         IN [rest EXCEPT !.actions =
                (IF disconnected
                 THEN <<"Reconnected disconnected module '" \o audit.module_name \o "'">>
                 ELSE <<>>) \o @]

(***************************************************************************)
(* The coordinator after HypergraphCoordinator::new                        *)
(***************************************************************************)
Threads == {"t1", "t2"}
NoThread == "none"
Locks == {"module_registry", "synergy_matrix", "audit_history", "performance_metrics"}
NoArg == [a |-> "", b |-> "", strength |-> Zero, op |-> "", dur |-> 0,
          instance |-> 0, config |-> DefaultConfig, created |-> 0]

InitCoordinator ==
    /\ module_registry = <<>>
    /\ synergy_matrix = [p \in {} |-> Zero]
    /\ audit_history = <<>>
    /\ performance_metrics = [total_operations |-> 0, average_response_time |-> 0]
    /\ now = 0

InitThreads ==
    /\ rwlock = [l \in Locks |-> [writer |-> NoThread, readers |-> [t \in Threads |-> 0]]]
    /\ pc = [t \in Threads |-> "idle"]
    /\ arg = [t \in Threads |-> NoArg]
    /\ idx = [t \in Threads |-> 0]

\* the two cells are empty and no global function has been called
InitGlobals ==
    /\ HYPERGRAPH_COORDINATOR = [set |-> FALSE, instance |-> 0]
    /\ CONFIG_REINFORCEMENT =
          [set |-> FALSE, instance |-> 0, config |-> DefaultConfig, last_audit |-> 0]
    /\ init_calls = 0
    /\ result = NoResult

Init == InitCoordinator /\ InitThreads /\ InitGlobals

(***************************************************************************)
(* One action per operation, each the whole call                           *)
(***************************************************************************)
RegisterModule(name) ==
    /\ module_registry' = register_module(module_registry, name, now)
    /\ UNCHANGED <<synergy_matrix, audit_history, performance_metrics, now, threadVars, globalVars>>

EstablishConnection(a, b, strength) ==
    /\ module_registry' = establish_connection_registry(module_registry, a, b)
    /\ synergy_matrix' = establish_connection_matrix(synergy_matrix, a, b, strength)
    /\ UNCHANGED <<audit_history, performance_metrics, now, threadVars, globalVars>>

RecordActivity(name, op, dur) ==
    /\ module_registry' = record_activity_registry(module_registry, name, op, dur, now)
    /\ performance_metrics' = record_activity_perf(performance_metrics, dur)
    /\ UNCHANGED <<synergy_matrix, audit_history, now, threadVars, globalVars>>

RecordError(name) ==
    /\ module_registry' = record_error(module_registry, name)
    /\ UNCHANGED <<synergy_matrix, audit_history, performance_metrics, now, threadVars, globalVars>>

AuditCoreModules ==
    LET audits == audit_core_modules(module_registry, synergy_matrix, now)
    IN /\ audit_history' = store_history(audit_history, audits)
       /\ UNCHANGED <<module_registry, synergy_matrix, performance_metrics, now, threadVars, globalVars>>

\* a read: the snapshot is get_performance_metrics(...) of the current state
GetPerformanceMetrics ==
    UNCHANGED <<module_registry, synergy_matrix, audit_history, performance_metrics, now, threadVars, globalVars>>

\* time passes: what Instant::now() returns grows
Tick(seconds) ==
    /\ now' = now + seconds
    /\ UNCHANGED <<coordVars, threadVars, globalVars>>

error_count_of(name) ==
    IF contains_key(module_registry, name) THEN get(module_registry, name).error_count ELSE 0

\* the mutating operations, with their inputs drawn from the given sets
Mutations(names, pairs, strengths, errNames, maxErrors, maxOps) ==
    \/ \E name \in names : RegisterModule(name)
    \/ \E p \in pairs, s \in strengths : EstablishConnection(p[1], p[2], s)
    \/ \E name \in names, op \in OpTypes, dur \in Durations :
          /\ performance_metrics.total_operations < maxOps
          /\ RecordActivity(name, op, dur)
    \/ \E name \in errNames :
          /\ error_count_of(name) < maxErrors
          /\ RecordError(name)

(***************************************************************************)
(* Spec: any interleaving of the six operations on two names               *)
(***************************************************************************)
Next ==
    \/ Mutations(Names, Pairs, Strengths, {"a"}, MaxErrors, MaxOps)
    \/ /\ Len(audit_history) < MaxHistory
       /\ AuditCoreModules
    \/ GetPerformanceMetrics

Spec == Init /\ [][Next]_vars

(***************************************************************************)
(* SpecAudit: three names are set up in any way, then audited              *)
(***************************************************************************)
NextAudit ==
    \/ /\ audit_history = <<>>
       /\ Mutations(AuditNames, AuditPairs, Strengths, {"a"}, MaxAuditErrors, MaxAuditOps)
    \/ /\ Len(audit_history) < MaxAuditHistory
       /\ AuditCoreModules
    \/ GetPerformanceMetrics

SpecAudit == Init /\ [][NextAudit]_vars

(***************************************************************************)
(* SpecHistory: registries of one and of many modules, audited repeatedly, *)
(* one second apart, until the history of one module has been truncated    *)
(***************************************************************************)
\* the registry after register_module("m1"), ..., register_module("m<n>")
registered_modules(n) == [i \in 1..n |-> new_metrics("m" \o ToString(i), 0)]

ManyModules == HistoryLimit + HistoryDrain + 1

InitHistory ==
    /\ module_registry \in {registered_modules(1), registered_modules(ManyModules)}
    /\ synergy_matrix = [p \in {} |-> Zero]
    /\ audit_history = <<>>
    /\ performance_metrics = [total_operations |-> 0, average_response_time |-> 0]
    /\ now = 0
    /\ InitThreads
    /\ InitGlobals

NextHistory ==
    \/ /\ Len(audit_history) <= HistoryLimit
       /\ audit_history /= <<>> => audit_history[Len(audit_history)].last_checked < now
       /\ AuditCoreModules
    \/ /\ audit_history /= <<>>
       /\ audit_history[Len(audit_history)].last_checked = now
       /\ now < HistoryLimit
       /\ Tick(1)

SpecHistory == InitHistory /\ [][NextHistory]_vars

(***************************************************************************)
(* SpecEdges: two registered names, with a self-edge and an edge to a name *)
(* that is never registered among the connections, at strengths 0 and 1    *)
(***************************************************************************)
NextEdges ==
    \/ Mutations(Names, EdgePairs, UnitStrengths, {"a"}, MaxEdgeErrors, MaxEdgeOps)
    \/ /\ Len(audit_history) < MaxEdgeHistory
       /\ AuditCoreModules
    \/ GetPerformanceMetrics

SpecEdges == Init /\ [][NextEdges]_vars

(***************************************************************************)
(* SpecFull: three names are registered and connected pairwise in any way, *)
(* then audited                                                            *)
(***************************************************************************)
NextFull ==
    \/ /\ audit_history = <<>>
       /\ \E name \in AuditNames : RegisterModule(name)
    \/ /\ audit_history = <<>>
       /\ \E p \in FullPairs, s \in FullStrengths : EstablishConnection(p[1], p[2], s)
    \/ /\ Len(audit_history) < MaxFullHistory
       /\ AuditCoreModules

SpecFull == Init /\ [][NextFull]_vars

(***************************************************************************)
(* SpecCounts: two names are registered, registered again, connected, used *)
(* and failed, each more than once                                         *)
(***************************************************************************)
NextCounts ==
    Mutations(Names, Pairs, {Half}, {"a"}, MaxCountErrors, MaxCountOps)

SpecCounts == Init /\ [][NextCounts]_vars

(***************************************************************************)
(* parking_lot::RwLock.  A writer sets the writer bit as soon as no other  *)
(* writer has it and then waits for the readers to leave; read() blocks    *)
(* while the writer bit is set, for a thread that already reads as well.   *)
(***************************************************************************)
can_read(l) == rwlock[l].writer = NoThread
can_claim_write(l) == rwlock[l].writer = NoThread
write_granted(l, t) ==
    /\ rwlock[l].writer = t
    /\ \A u \in Threads : rwlock[l].readers[u] = 0

lock_shared(locks, l, t) == [locks EXCEPT ![l].readers[t] = @ + 1]
unlock_shared(locks, l, t) == [locks EXCEPT ![l].readers[t] = @ - 1]
lock_exclusive(locks, l, t) == [locks EXCEPT ![l].writer = t]
unlock_exclusive(locks, l, t) == [locks EXCEPT ![l].writer = NoThread]

goto(t, label) == pc' = [pc EXCEPT ![t] = label]
return(t) ==
    /\ pc' = [pc EXCEPT ![t] = "idle"]
    /\ arg' = [arg EXCEPT ![t] = NoArg]
    /\ idx' = [idx EXCEPT ![t] = 0]

(***************************************************************************)
(* The operations as run by a thread, one step per lock acquisition        *)
(***************************************************************************)
\* whether the lock operation a call in progress has arrived at can complete
ready(t) ==
    CASE pc[t] = "register_module" -> write_granted("module_registry", t)
      [] pc[t] = "establish_connection" ->
            write_granted("module_registry", t) /\ can_claim_write("synergy_matrix")
      [] pc[t] = "establish_connection_update" -> write_granted("synergy_matrix", t)
      [] pc[t] = "establish_connection_reverse" -> TRUE
      [] pc[t] = "record_activity" ->
            write_granted("module_registry", t) /\ can_claim_write("performance_metrics")
      [] pc[t] = "record_activity_perf" -> write_granted("performance_metrics", t)
      [] pc[t] = "record_error" -> write_granted("module_registry", t)
      [] pc[t] = "audit_core_modules" -> can_read("synergy_matrix")
      [] pc[t] = "audit_loop" ->
            IF idx[t] <= Len(module_registry)
            THEN can_read("module_registry")
            ELSE can_claim_write("audit_history")
      [] pc[t] = "audit_store" -> write_granted("audit_history", t)
      [] pc[t] = "get_performance_metrics" -> can_read("module_registry")
      [] pc[t] = "metrics_matrix" -> can_read("synergy_matrix")
      [] pc[t] = "metrics_loop" -> can_read("module_registry")
      [] pc[t] = "init_hypergraph_coordinator" -> TRUE
      [] pc[t] = "init_config_reinforcement" -> TRUE
      [] OTHER -> FALSE

\* whether the thread has a guard of the lock: a read guard, or the write
\* guard once it is granted
holds(t, l) == rwlock[l].readers[t] > 0 \/ write_granted(l, t)

\* whether the next read() or write() call of the call in progress, in program
\* order, is on the lock
requests(t, l) ==
    CASE pc[t] = "establish_connection" -> l = "synergy_matrix"
      [] pc[t] = "record_activity" -> l = "performance_metrics"
      [] pc[t] = "audit_core_modules" -> l = "synergy_matrix"
      [] pc[t] = "audit_loop" ->
            IF idx[t] <= Len(module_registry)
            THEN l = "module_registry"
            ELSE l = "audit_history"
      [] pc[t] = "get_performance_metrics" -> l = "module_registry"
      [] pc[t] = "metrics_matrix" -> l = "synergy_matrix"
      [] pc[t] = "metrics_loop" -> l = "module_registry"
      [] OTHER -> FALSE

\* register_module: self.module_registry.write()
RegisterModuleCall(t, name) ==
    /\ pc[t] = "idle"
    /\ can_claim_write("module_registry")
    /\ rwlock' = lock_exclusive(rwlock, "module_registry", t)
    /\ goto(t, "register_module")
    /\ arg' = [arg EXCEPT ![t] = [NoArg EXCEPT !.a = name]]
    /\ UNCHANGED <<coordVars, now, idx, globalVars>>

\* the insert and the release of the guard
RegisterModuleBody(t) ==
    /\ pc[t] = "register_module"
    /\ ready(t)
    /\ module_registry' = register_module(module_registry, arg[t].a, now)
    /\ rwlock' = unlock_exclusive(rwlock, "module_registry", t)
    /\ return(t)
    /\ UNCHANGED <<synergy_matrix, audit_history, performance_metrics, now, globalVars>>

\* establish_connection: self.module_registry.write()
EstablishConnectionCall(t, a, b, strength) ==
    /\ pc[t] = "idle"
    /\ can_claim_write("module_registry")
    /\ rwlock' = lock_exclusive(rwlock, "module_registry", t)
    /\ goto(t, "establish_connection")
    /\ arg' = [arg EXCEPT ![t] = [NoArg EXCEPT !.a = a, !.b = b, !.strength = strength]]
    /\ UNCHANGED <<coordVars, now, idx, globalVars>>

\* self.synergy_matrix.write(), with the registry guard held
EstablishConnectionMatrixLock(t) ==
    /\ pc[t] = "establish_connection"
    /\ ready(t)
    /\ rwlock' = lock_exclusive(rwlock, "synergy_matrix", t)
    /\ goto(t, "establish_connection_update")
    /\ UNCHANGED <<coordVars, now, arg, idx, globalVars>>

\* the two active_connections inserts and the first matrix insert
EstablishConnectionUpdate(t) ==
    /\ pc[t] = "establish_connection_update"
    /\ ready(t)
    /\ module_registry' = establish_connection_registry(module_registry, arg[t].a, arg[t].b)
    /\ synergy_matrix' =
          establish_connection_forward(synergy_matrix, arg[t].a, arg[t].b, arg[t].strength)
    /\ goto(t, "establish_connection_reverse")
    /\ UNCHANGED <<audit_history, performance_metrics, now, rwlock, arg, idx, globalVars>>

\* the second matrix insert and the release of both guards
EstablishConnectionReverse(t) ==
    /\ pc[t] = "establish_connection_reverse"
    /\ ready(t)
    /\ synergy_matrix' =
          establish_connection_backward(synergy_matrix, arg[t].a, arg[t].b, arg[t].strength)
    /\ rwlock' = unlock_exclusive(unlock_exclusive(rwlock, "synergy_matrix", t),
                                  "module_registry", t)
    /\ return(t)
    /\ UNCHANGED <<module_registry, audit_history, performance_metrics, now, globalVars>>

\* record_activity: self.module_registry.write()
RecordActivityCall(t, name, op, dur) ==
    /\ pc[t] = "idle"
    /\ can_claim_write("module_registry")
    /\ rwlock' = lock_exclusive(rwlock, "module_registry", t)
    /\ goto(t, "record_activity")
    /\ arg' = [arg EXCEPT ![t] = [NoArg EXCEPT !.a = name, !.op = op, !.dur = dur]]
    /\ UNCHANGED <<coordVars, now, idx, globalVars>>

\* the update of the module, then self.performance_metrics.write()
RecordActivityModule(t) ==
    /\ pc[t] = "record_activity"
    /\ ready(t)
    /\ module_registry' = record_activity_registry(module_registry, arg[t].a, arg[t].op,
                                                   arg[t].dur, now)
    /\ rwlock' = lock_exclusive(rwlock, "performance_metrics", t)
    /\ goto(t, "record_activity_perf")
    /\ UNCHANGED <<synergy_matrix, audit_history, performance_metrics, now, arg, idx, globalVars>>

\* the update of the global metrics and the release of both guards
RecordActivityPerf(t) ==
    /\ pc[t] = "record_activity_perf"
    /\ ready(t)
    /\ performance_metrics' = record_activity_perf(performance_metrics, arg[t].dur)
    /\ rwlock' = unlock_exclusive(unlock_exclusive(rwlock, "performance_metrics", t),
                                  "module_registry", t)
    /\ return(t)
    /\ UNCHANGED <<module_registry, synergy_matrix, audit_history, now, globalVars>>

\* record_error: self.module_registry.write()
RecordErrorCall(t, name) ==
    /\ pc[t] = "idle"
    /\ can_claim_write("module_registry")
    /\ rwlock' = lock_exclusive(rwlock, "module_registry", t)
    /\ goto(t, "record_error")
    /\ arg' = [arg EXCEPT ![t] = [NoArg EXCEPT !.a = name]]
    /\ UNCHANGED <<coordVars, now, idx, globalVars>>

RecordErrorBody(t) ==
    /\ pc[t] = "record_error"
    /\ ready(t)
    /\ module_registry' = record_error(module_registry, arg[t].a)
    /\ rwlock' = unlock_exclusive(rwlock, "module_registry", t)
    /\ return(t)
    /\ UNCHANGED <<synergy_matrix, audit_history, performance_metrics, now, globalVars>>

\* audit_core_modules: self.module_registry.read()
AuditCall(t) ==
    /\ pc[t] = "idle"
    /\ can_read("module_registry")
    /\ rwlock' = lock_shared(rwlock, "module_registry", t)
    /\ goto(t, "audit_core_modules")
    /\ UNCHANGED <<coordVars, now, arg, idx, globalVars>>

\* self.synergy_matrix.read(); the loop over the registry starts
AuditMatrixLock(t) ==
    /\ pc[t] = "audit_core_modules"
    /\ ready(t)
    /\ rwlock' = lock_shared(rwlock, "synergy_matrix", t)
    /\ goto(t, "audit_loop")
    /\ idx' = [idx EXCEPT ![t] = 1]
    /\ UNCHANGED <<coordVars, now, arg, globalVars>>

\* one iteration: calculate_synergy_score takes self.module_registry.read()
\* again, while the guard of audit_core_modules is held, and drops it
AuditScore(t) ==
    /\ pc[t] = "audit_loop"
    /\ idx[t] <= Len(module_registry)
    /\ ready(t)
    /\ idx' = [idx EXCEPT ![t] = @ + 1]
    /\ UNCHANGED <<coordVars, now, rwlock, pc, arg, globalVars>>

\* after the loop: self.audit_history.write()
AuditHistoryLock(t) ==
    /\ pc[t] = "audit_loop"
    /\ idx[t] > Len(module_registry)
    /\ ready(t)
    /\ rwlock' = lock_exclusive(rwlock, "audit_history", t)
    /\ goto(t, "audit_store")
    /\ UNCHANGED <<coordVars, now, arg, idx, globalVars>>

\* a bug: the audit clears the error counters it has reported
AuditStoreClearingErrors(t) ==
    /\ pc[t] = "audit_store"
    /\ ready(t)
    /\ audit_history' = store_history(audit_history,
                            audit_core_modules(module_registry, synergy_matrix, now))
    /\ module_registry' = [i \in 1..Len(module_registry) |->
                              [module_registry[i] EXCEPT !.error_count = 0]]
    /\ rwlock' = unlock_shared(unlock_shared(unlock_exclusive(rwlock, "audit_history", t),
                                             "synergy_matrix", t),
                               "module_registry", t)
    /\ return(t)
    /\ UNCHANGED <<synergy_matrix, performance_metrics, now, globalVars>>

\* history.extend, the truncation, and the release of the three guards
AuditStore(t) ==
    /\ pc[t] = "audit_store"
    /\ ready(t)
    /\ audit_history' = store_history(audit_history,
                            audit_core_modules(module_registry, synergy_matrix, now))
    /\ rwlock' = unlock_shared(unlock_shared(unlock_exclusive(rwlock, "audit_history", t),
                                             "synergy_matrix", t),
                               "module_registry", t)
    /\ return(t)
    /\ UNCHANGED <<module_registry, synergy_matrix, performance_metrics, now, globalVars>>

\* get_performance_metrics: self.performance_metrics.read()
MetricsCall(t) ==
    /\ pc[t] = "idle"
    /\ can_read("performance_metrics")
    /\ rwlock' = lock_shared(rwlock, "performance_metrics", t)
    /\ goto(t, "get_performance_metrics")
    /\ UNCHANGED <<coordVars, now, arg, idx, globalVars>>

\* self.module_registry.read()
MetricsRegistryLock(t) ==
    /\ pc[t] = "get_performance_metrics"
    /\ ready(t)
    /\ rwlock' = lock_shared(rwlock, "module_registry", t)
    /\ goto(t, "metrics_matrix")
    /\ UNCHANGED <<coordVars, now, arg, idx, globalVars>>

\* self.synergy_matrix.read(); the map over registry.keys() starts
MetricsMatrixLock(t) ==
    /\ pc[t] = "metrics_matrix"
    /\ ready(t)
    /\ rwlock' = lock_shared(rwlock, "synergy_matrix", t)
    /\ goto(t, "metrics_loop")
    /\ idx' = [idx EXCEPT ![t] = 1]
    /\ UNCHANGED <<coordVars, now, arg, globalVars>>

\* one key: calculate_synergy_score reads the registry again
MetricsScore(t) ==
    /\ pc[t] = "metrics_loop"
    /\ idx[t] <= Len(module_registry)
    /\ ready(t)
    /\ idx' = [idx EXCEPT ![t] = @ + 1]
    /\ UNCHANGED <<coordVars, now, rwlock, pc, arg, globalVars>>

\* calculate_memory_efficiency reads the registry again; then the snapshot is
\* built and the three guards are released
MetricsMemoryEfficiency(t) ==
    /\ pc[t] = "metrics_loop"
    /\ idx[t] > Len(module_registry)
    /\ ready(t)
    /\ rwlock' = unlock_shared(unlock_shared(unlock_shared(rwlock, "synergy_matrix", t),
                                             "module_registry", t),
                               "performance_metrics", t)
    /\ return(t)
    /\ UNCHANGED <<coordVars, now, globalVars>>

\* the steps of a call in progress
Step(t) ==
    \/ RegisterModuleBody(t)
    \/ EstablishConnectionMatrixLock(t)
    \/ EstablishConnectionUpdate(t)
    \/ EstablishConnectionReverse(t)
    \/ RecordActivityModule(t)
    \/ RecordActivityPerf(t)
    \/ RecordErrorBody(t)
    \/ AuditMatrixLock(t)
    \/ AuditScore(t)
    \/ AuditHistoryLock(t)
    \/ AuditStore(t)
    \/ MetricsRegistryLock(t)
    \/ MetricsMatrixLock(t)
    \/ MetricsScore(t)
    \/ MetricsMemoryEfficiency(t)

\* a thread starts a call
Call(t) ==
    \/ \E name \in ConcNames : RegisterModuleCall(t, name)
    \/ \E p \in ConcPairs, s \in Strengths : EstablishConnectionCall(t, p[1], p[2], s)
    \/ \E name \in ConcNames :
          /\ performance_metrics.total_operations < MaxConcOps
          /\ RecordActivityCall(t, name, "validation", OneMilli)
    \/ \E name \in ConcNames :
          /\ error_count_of(name) < MaxConcErrors
          /\ RecordErrorCall(t, name)
    \/ /\ Len(audit_history) < MaxConcHistory
       /\ AuditCall(t)
    \/ MetricsCall(t)

NextConc == \E t \in Threads : Call(t) \/ Step(t)

SpecConc == Init /\ [][NextConc]_vars

(***************************************************************************)
(* SpecInit: the global functions.  The init_* functions are run by        *)
(* threads, in two steps (the instance is built, then OnceCell::set);      *)
(* every other global function is one action, the whole call.              *)
(***************************************************************************)
\* init_hypergraph_coordinator: Arc::new(HypergraphCoordinator::new(config))
InitHypergraphCoordinatorCall(t) ==
    /\ pc[t] = "idle"
    /\ init_calls < MaxInitCalls
    /\ init_calls' = init_calls + 1
    /\ arg' = [arg EXCEPT ![t] = [NoArg EXCEPT !.instance = init_calls + 1]]
    /\ goto(t, "init_hypergraph_coordinator")
    /\ UNCHANGED <<coordVars, now, rwlock, idx, HYPERGRAPH_COORDINATOR,
                   CONFIG_REINFORCEMENT, result>>

\* HYPERGRAPH_COORDINATOR.set(coordinator).map_err(...); the coordinator
\* state is the state of the stored instance, new when that instance is new
InitHypergraphCoordinatorSet(t) ==
    /\ pc[t] = "init_hypergraph_coordinator"
    /\ ready(t)
    /\ LET set == once_cell_set(HYPERGRAPH_COORDINATOR,
                                [set |-> TRUE, instance |-> arg[t].instance])
       IN /\ HYPERGRAPH_COORDINATOR' = set.cell
          /\ IF set.cell.instance = HYPERGRAPH_COORDINATOR.instance
             THEN UNCHANGED coordVars
             ELSE /\ module_registry' = <<>>
                  /\ synergy_matrix' = [p \in {} |-> Zero]
                  /\ audit_history' = <<>>
                  /\ performance_metrics' =
                        [total_operations |-> 0, average_response_time |-> 0]
          /\ result' = IF set.ok
                       THEN Ok("init_hypergraph_coordinator", <<>>)
                       ELSE Err("init_hypergraph_coordinator", CoordinatorAlreadyInitialized)
    /\ return(t)
    /\ UNCHANGED <<now, rwlock, CONFIG_REINFORCEMENT, init_calls>>

\* init_config_reinforcement: ConfigReinforcement::new(config.unwrap_or_default())
InitConfigReinforcementCall(t, config) ==
    /\ pc[t] = "idle"
    /\ init_calls < MaxInitCalls
    /\ init_calls' = init_calls + 1
    /\ arg' = [arg EXCEPT ![t] = [NoArg EXCEPT !.instance = init_calls + 1,
                                                !.config = config, !.created = now]]
    /\ goto(t, "init_config_reinforcement")
    /\ UNCHANGED <<coordVars, now, rwlock, idx, HYPERGRAPH_COORDINATOR,
                   CONFIG_REINFORCEMENT, result>>

\* CONFIG_REINFORCEMENT.set(reinforcement).map_err(...)
InitConfigReinforcementSet(t) ==
    /\ pc[t] = "init_config_reinforcement"
    /\ ready(t)
    /\ LET set == once_cell_set(CONFIG_REINFORCEMENT,
                                new_reinforcement(arg[t].config, arg[t].instance,
                                                  arg[t].created))
       IN /\ CONFIG_REINFORCEMENT' = set.cell
          /\ result' = IF set.ok
                       THEN Ok("init_config_reinforcement", <<>>)
                       ELSE Err("init_config_reinforcement", ReinforcementAlreadyInitialized)
    /\ return(t)
    /\ UNCHANGED <<coordVars, now, rwlock, HYPERGRAPH_COORDINATOR, init_calls>>

\* get_hypergraph_coordinator()?.register_module(module_name)
GlobalRegisterModule(name) ==
    /\ IF once_cell_get(HYPERGRAPH_COORDINATOR)
       THEN /\ module_registry' = register_module(module_registry, name, now)
            /\ result' = Ok("register_module", <<>>)
       ELSE /\ UNCHANGED module_registry
            /\ result' = Err("register_module", CoordinatorNotInitialized)
    /\ UNCHANGED <<synergy_matrix, audit_history, performance_metrics, now, threadVars,
                   HYPERGRAPH_COORDINATOR, CONFIG_REINFORCEMENT, init_calls>>

\* get_hypergraph_coordinator()?.establish_connection(module_a, module_b, strength)
GlobalEstablishConnection(a, b, strength) ==
    /\ IF once_cell_get(HYPERGRAPH_COORDINATOR)
       THEN /\ module_registry' = establish_connection_registry(module_registry, a, b)
            /\ synergy_matrix' = establish_connection_matrix(synergy_matrix, a, b, strength)
            /\ result' = Ok("establish_connection", <<>>)
       ELSE /\ UNCHANGED <<module_registry, synergy_matrix>>
            /\ result' = Err("establish_connection", CoordinatorNotInitialized)
    /\ UNCHANGED <<audit_history, performance_metrics, now, threadVars,
                   HYPERGRAPH_COORDINATOR, CONFIG_REINFORCEMENT, init_calls>>

\* get_hypergraph_coordinator()?.record_activity(module_name, operation_type, duration)
GlobalRecordActivity(name, op, dur) ==
    /\ IF once_cell_get(HYPERGRAPH_COORDINATOR)
       THEN /\ module_registry' = record_activity_registry(module_registry, name, op, dur, now)
            /\ performance_metrics' = record_activity_perf(performance_metrics, dur)
            /\ result' = Ok("record_activity", <<>>)
       ELSE /\ UNCHANGED <<module_registry, performance_metrics>>
            /\ result' = Err("record_activity", CoordinatorNotInitialized)
    /\ UNCHANGED <<synergy_matrix, audit_history, now, threadVars,
                   HYPERGRAPH_COORDINATOR, CONFIG_REINFORCEMENT, init_calls>>

\* get_hypergraph_coordinator()?.record_error(module_name, error)
GlobalRecordError(name) ==
    /\ IF once_cell_get(HYPERGRAPH_COORDINATOR)
       THEN /\ module_registry' = record_error(module_registry, name)
            /\ result' = Ok("record_error", <<>>)
       ELSE /\ UNCHANGED module_registry
            /\ result' = Err("record_error", CoordinatorNotInitialized)
    /\ UNCHANGED <<synergy_matrix, audit_history, performance_metrics, now, threadVars,
                   HYPERGRAPH_COORDINATOR, CONFIG_REINFORCEMENT, init_calls>>

\* get_hypergraph_coordinator()?.audit_core_modules()
GlobalAuditCoreModules ==
    /\ IF once_cell_get(HYPERGRAPH_COORDINATOR)
       THEN LET audits == audit_core_modules(module_registry, synergy_matrix, now)
            IN /\ audit_history' = store_history(audit_history, audits)
               /\ result' = Ok("audit_core_modules", audits)
       ELSE /\ UNCHANGED audit_history
            /\ result' = Err("audit_core_modules", CoordinatorNotInitialized)
    /\ UNCHANGED <<module_registry, synergy_matrix, performance_metrics, now, threadVars,
                   HYPERGRAPH_COORDINATOR, CONFIG_REINFORCEMENT, init_calls>>

\* validate_configurations(global_config): get_config_reinforcement().await?,
\* the mutex, then ConfigReinforcement::validate_configurations; elapsed is
\* what start_time.elapsed() gives at the end
ValidateConfigurations(elapsed) ==
    IF ~once_cell_get(CONFIG_REINFORCEMENT)
    THEN /\ result' = Err("validate_configurations", ReinforcementNotInitialized)
         /\ UNCHANGED <<coordVars, now, threadVars, HYPERGRAPH_COORDINATOR,
                        CONFIG_REINFORCEMENT, init_calls>>
    ELSE IF ~once_cell_get(HYPERGRAPH_COORDINATOR)
    THEN /\ result' = Err("validate_configurations",
                           "Failed to record config validation activity")
         /\ UNCHANGED <<coordVars, now, threadVars, HYPERGRAPH_COORDINATOR,
                        CONFIG_REINFORCEMENT, init_calls>>
    ELSE LET config == CONFIG_REINFORCEMENT.config
             started == record_activity_registry(module_registry, "config", "validation",
                                                 OneMilli, now)
             counted == record_activity_perf(performance_metrics, OneMilli)
             due == now - CONFIG_REINFORCEMENT.last_audit >= config.audit_interval_seconds
             audits == audit_core_modules(started, synergy_matrix, now)
             metrics == get_performance_metrics(counted, started, synergy_matrix)
             recommendations ==
                 (IF due THEN scheduled_audit_recommendations(audits, config) ELSE <<>>)
                 \o <<"Configuration paths validated successfully">>
                 \o check_error_thresholds(metrics, config)
                 \o <<"Connection health assessment completed">>
         IN /\ module_registry' = record_activity_registry(started, "config", "validation",
                                                           elapsed, now)
            /\ performance_metrics' = record_activity_perf(counted, elapsed)
            /\ audit_history' = IF due THEN store_history(audit_history, audits)
                                ELSE audit_history
            /\ CONFIG_REINFORCEMENT' =
                  [CONFIG_REINFORCEMENT EXCEPT !.last_audit = IF due THEN now ELSE @]
            /\ result' = Ok("validate_configurations", recommendations)
            /\ UNCHANGED <<synergy_matrix, now, threadVars, HYPERGRAPH_COORDINATOR,
                           init_calls>>

\* apply_auto_healing(): get_config_reinforcement().await?, the mutex, then
\* ConfigReinforcement::apply_auto_healing
ApplyAutoHealing ==
    IF ~once_cell_get(CONFIG_REINFORCEMENT)
    THEN /\ result' = Err("apply_auto_healing", ReinforcementNotInitialized)
         /\ UNCHANGED <<coordVars, now, threadVars, HYPERGRAPH_COORDINATOR,
                        CONFIG_REINFORCEMENT, init_calls>>
    ELSE IF ~auto_healing_enabled(CONFIG_REINFORCEMENT.config)
    THEN /\ result' = Ok("apply_auto_healing", <<>>)
         /\ UNCHANGED <<coordVars, now, threadVars, HYPERGRAPH_COORDINATOR,
                        CONFIG_REINFORCEMENT, init_calls>>
    ELSE IF ~once_cell_get(HYPERGRAPH_COORDINATOR)
    THEN /\ result' = Ok("apply_auto_healing",
                          <<"Auto-healing audit failed: " \o CoordinatorNotInitialized>>)
         /\ UNCHANGED <<coordVars, now, threadVars, HYPERGRAPH_COORDINATOR,
                        CONFIG_REINFORCEMENT, init_calls>>
    ELSE LET audits == audit_core_modules(module_registry, synergy_matrix, now)
             healed == auto_heal(module_registry, synergy_matrix, audits)
         IN /\ audit_history' = store_history(audit_history, audits)
            /\ module_registry' = healed.registry
            /\ synergy_matrix' = healed.matrix
            /\ result' = Ok("apply_auto_healing", healed.actions)
            /\ UNCHANGED <<performance_metrics, now, threadVars, HYPERGRAPH_COORDINATOR,
                           CONFIG_REINFORCEMENT, init_calls>>

NextInit ==
    \/ \E t \in Threads : InitHypergraphCoordinatorCall(t)
    \/ \E t \in Threads : InitHypergraphCoordinatorSet(t)
    \/ \E t \in Threads, config \in ReinforcementConfigs :
          InitConfigReinforcementCall(t, config)
    \/ \E t \in Threads : InitConfigReinforcementSet(t)
    \/ GlobalRegisterModule("config")
    \/ GlobalEstablishConnection("config", "w", Rat(9, 10))
    \/ /\ performance_metrics.total_operations < MaxInitOps
       /\ GlobalRecordActivity("config", "llm_completion", OneMilli)
    \/ /\ error_count_of("config") < MaxInitErrors
       /\ GlobalRecordError("config")
    \/ /\ Len(audit_history) < MaxInitHistory
       /\ GlobalAuditCoreModules
    \/ /\ performance_metrics.total_operations < MaxInitOps
       /\ Len(audit_history) < MaxInitHistory
       /\ \E elapsed \in Durations : ValidateConfigurations(elapsed)
    \/ /\ Len(audit_history) < MaxInitHistory
       /\ ApplyAutoHealing

SpecInit == Init /\ [][NextInit]_vars

(***************************************************************************)
(* SpecGlobal: the reinforcement has been initialised with one of the      *)
(* configurations, the coordinator may or may not have been; the global    *)
(* functions are called in any order on the names "config" and "w"         *)
(***************************************************************************)
InitGlobal ==
    /\ InitCoordinator
    /\ InitThreads
    /\ \E initialized \in BOOLEAN :
          HYPERGRAPH_COORDINATOR =
              [set |-> initialized, instance |-> IF initialized THEN 1 ELSE 0]
    /\ \E config \in ReinforcementConfigs :
          CONFIG_REINFORCEMENT = new_reinforcement(config, 2, 0)
    /\ init_calls = 2
    /\ result = NoResult

NextGlobal ==
    \/ \E name \in GlobalNames : GlobalRegisterModule(name)
    \/ GlobalEstablishConnection("w", "config", Rat(9, 10))
    \/ /\ error_count_of("w") < MaxGlobalErrors
       /\ GlobalRecordError("w")
    \/ /\ Len(audit_history) < MaxGlobalHistory
       /\ GlobalAuditCoreModules
    \/ /\ performance_metrics.total_operations < MaxGlobalOps
       /\ Len(audit_history) < MaxGlobalHistory
       /\ \E elapsed \in Durations : ValidateConfigurations(elapsed)
    \/ /\ Len(audit_history) < MaxGlobalHistory
       /\ ApplyAutoHealing

SpecGlobal == InitGlobal /\ [][NextGlobal]_vars

(***************************************************************************)
(* SpecSchedule: the reinforcement was created at time 0 with the default  *)
(* configuration, the coordinator may or may not have been initialised;    *)
(* time passes, a module w is registered and validations are called        *)
(***************************************************************************)
InitSchedule ==
    /\ InitCoordinator
    /\ InitThreads
    /\ \E initialized \in BOOLEAN :
          HYPERGRAPH_COORDINATOR =
              [set |-> initialized, instance |-> IF initialized THEN 1 ELSE 0]
    /\ CONFIG_REINFORCEMENT = new_reinforcement(DefaultConfig, 2, 0)
    /\ init_calls = 2
    /\ result = NoResult

NextSchedule ==
    \/ /\ now < MaxScheduleTime
       /\ \E seconds \in ScheduleTicks : Tick(seconds)
    \/ GlobalRegisterModule("w")
    \/ /\ performance_metrics.total_operations < MaxScheduleOps
       /\ \E elapsed \in Durations : ValidateConfigurations(elapsed)

SpecSchedule == InitSchedule /\ [][NextSchedule]_vars

(***************************************************************************)
(* SpecThreshold: the coordinator has recorded about ten times             *)
(* max_module_errors activities; a module w is registered and fails, and   *)
(* validations are called                                                  *)
(***************************************************************************)
\* the performance metrics after n more calls of record_activity(_, _, 1ms);
\* the calls are made in two halves, which keeps the evaluation shallow
RECURSIVE record_activities(_, _)
record_activities(perf, n) ==
    IF n = 0 THEN perf
    ELSE IF n = 1 THEN record_activity_perf(perf, OneMilli)
    ELSE LET first == record_activities(perf, n \div 2)
         IN IF first.total_operations < 0 THEN first
            ELSE record_activities(first, n - n \div 2)

activities_recorded(n) ==
    record_activities([total_operations |-> 0, average_response_time |-> 0], n)

\* the numbers of activities recorded before the first validation
ThresholdStarts == {10 * DefaultConfig.max_module_errors - k : k \in 0..2}

InitThreshold ==
    /\ module_registry = <<>>
    /\ synergy_matrix = [p \in {} |-> Zero]
    /\ audit_history = <<>>
    /\ \E n \in ThresholdStarts : performance_metrics = activities_recorded(n)
    /\ now = 0
    /\ InitThreads
    /\ HYPERGRAPH_COORDINATOR = [set |-> TRUE, instance |-> 1]
    /\ CONFIG_REINFORCEMENT = new_reinforcement(DefaultConfig, 2, 0)
    /\ init_calls = 2
    /\ result = NoResult

NextThreshold ==
    \/ GlobalRegisterModule("w")
    \/ /\ error_count_of("w") < MaxThresholdErrors
       /\ GlobalRecordError("w")
    \/ /\ performance_metrics.total_operations < MaxThresholdOps
       /\ \E elapsed \in Durations : ValidateConfigurations(elapsed)

SpecThreshold == InitThreshold /\ [][NextThreshold]_vars

(***************************************************************************)
(* SpecHeal: both singletons are initialised, auto-healing is enabled;     *)
(* "config", w and x are registered in any order, w fails up to the        *)
(* Critical threshold and w and x may be connected; then auto-healing runs *)
(* several times                                                           *)
(***************************************************************************)
InitHeal ==
    /\ InitCoordinator
    /\ InitThreads
    /\ HYPERGRAPH_COORDINATOR = [set |-> TRUE, instance |-> 1]
    /\ CONFIG_REINFORCEMENT = new_reinforcement(DefaultConfig, 2, 0)
    /\ init_calls = 2
    /\ result = NoResult

NextHeal ==
    \/ /\ audit_history = <<>>
       /\ \E name \in HealNames : GlobalRegisterModule(name)
    \/ /\ audit_history = <<>>
       /\ GlobalEstablishConnection("w", "x", Rat(9, 10))
    \/ /\ audit_history = <<>>
       /\ error_count_of("w") < MaxHealErrors
       /\ GlobalRecordError("w")
    \/ /\ Len(audit_history) < MaxHealHistory
       /\ ApplyAutoHealing

SpecHeal == InitHeal /\ [][NextHeal]_vars

(***************************************************************************)
(* Properties                                                              *)
(***************************************************************************)
registered(name) == contains_key(module_registry, name)
module(name) == get(module_registry, name)
has_edge(a, b) == <<a, b>> \in DOMAIN synergy_matrix

\* C1: the message_count and the error_count of a registered module never
\* decrease from one state to the next, whatever operation is called
\* (re-registration of its name included).
C1_CountersMonotonic ==
    [][\A i \in 1..Len(module_registry) :
          LET old == module_registry[i]
          IN contains_key(module_registry', old.name) =>
                /\ get(module_registry', old.name).message_count >= old.message_count
                /\ get(module_registry', old.name).error_count >= old.error_count]_vars

\* C2: after any sequence of operations, whatever the number of registered
\* modules, the audit history holds at most 1000 records.
C2_HistoryBounded == Len(audit_history) <= 1000

\* C3: every name in the active_connections of a registered module is a key
\* of the registry.
C3_NoDanglingConnections ==
    \A i \in 1..Len(module_registry) :
        module_registry[i].active_connections \subseteq keys(module_registry)

\* C4: for every entry (a,b) of the synergy matrix, b is in
\* a.active_connections and a is in b.active_connections.  Stated here for
\* the entries whose two endpoints are registered; an entry with an
\* unregistered endpoint has no connection set to be in at all.
C4_MatrixEntriesConnected ==
    \A p \in DOMAIN synergy_matrix :
        (registered(p[1]) /\ registered(p[2])) =>
            /\ p[2] \in module(p[1]).active_connections
            /\ p[1] \in module(p[2]).active_connections

\* C5: the synergy matrix is symmetric: (a,b) has an entry exactly when (b,a)
\* has one, and both carry the same strength.  Among concurrent threads the
\* states that count are those in which the matrix can be read, that is, in
\* which no thread has its write lock.
C5_MatrixSymmetric ==
    rwlock["synergy_matrix"].writer = NoThread =>
        \A p \in DOMAIN synergy_matrix :
            /\ <<p[2], p[1]>> \in DOMAIN synergy_matrix
            /\ synergy_matrix[<<p[2], p[1]>>] = synergy_matrix[p]

\* a thread that re-establishes (a,b) with strength 0.1 over an earlier 0.9
\* is between its two inserts, while another thread waits to read
C5_Witness ==
    \E t \in Threads, u \in Threads :
        /\ pc[t] = "establish_connection_reverse"
        /\ arg[t].strength = Rat(1, 10)
        /\ has_edge("a", "b") /\ synergy_matrix[<<"a", "b">>] = Rat(1, 10)
        /\ has_edge("b", "a") /\ synergy_matrix[<<"b", "a">>] = Rat(9, 10)
        /\ pc[u] = "get_performance_metrics"

\* C6: right after establish_connection(a, b, s) with a and b registered, b is
\* in a.active_connections, a is in b.active_connections, the matrix holds s
\* for (a,b) and (b,a), and an audit run then reports at least one connection
\* for a and for b.
C6_ConnectionEstablished ==
    [][\A p \in Pairs, s \in Strengths :
          (/\ registered(p[1]) /\ registered(p[2])
           /\ EstablishConnection(p[1], p[2], s)) =>
             /\ p[2] \in get(module_registry', p[1]).active_connections
             /\ p[1] \in get(module_registry', p[2]).active_connections
             /\ <<p[1], p[2]>> \in DOMAIN synergy_matrix'
             /\ <<p[2], p[1]>> \in DOMAIN synergy_matrix'
             /\ synergy_matrix'[<<p[1], p[2]>>] = s
             /\ synergy_matrix'[<<p[2], p[1]>>] = s
             /\ \A i \in 1..Len(module_registry') :
                   module_registry'[i].name \in {p[1], p[2]} =>
                       audit_core_modules(module_registry', synergy_matrix', now')[i]
                           .hypergraph_connections >= 1]_vars

\* a and b are connected to each other and the audit that followed has
\* reported both with one connection
C6_Witness ==
    /\ registered("a") /\ registered("b")
    /\ module("a").active_connections = {"b"}
    /\ module("b").active_connections = {"a"}
    /\ has_edge("a", "b") /\ has_edge("b", "a")
    /\ Len(audit_history) = 2
    /\ \A i \in 1..2 : audit_history[i].hypergraph_connections = 1

\* C7: every call returns: whenever calls are in progress, at least one of
\* them can take its next step (the locks are released only by calls in
\* progress, so a state where none can move is one where they wait forever).
C7_NoDeadlock ==
    (\E t \in Threads : pc[t] /= "idle") =>
        (\E t \in Threads : ready(t))

last_audit_of(name) ==
    LET i == CHOOSE j \in 1..Len(audit_history) :
                /\ audit_history[j].module_name = name
                /\ \A k \in (j + 1)..Len(audit_history) :
                      audit_history[k].module_name /= name
    IN audit_history[i]

\* the scenario of test_core_module_audit: a (5 errors) and b (no error) are
\* connected to each other with strength 0.9, c has no connection
C9_Scenario ==
    /\ keys(module_registry) = {"a", "b", "c"}
    /\ module("a").active_connections = {"b"}
    /\ module("b").active_connections = {"a"}
    /\ module("c").active_connections = {}
    /\ has_edge("a", "b") /\ synergy_matrix[<<"a", "b">>] = Rat(9, 10)
    /\ has_edge("b", "a") /\ synergy_matrix[<<"b", "a">>] = Rat(9, 10)
    /\ module("a").error_count = 5
    /\ module("b").error_count = 0
    /\ module("c").error_count = 0

\* C9: in that scenario the audit classifies a as Warning, b as Healthy and c
\* as Disconnected with connection count 0.
C9_TestCoreModuleAudit ==
    (C9_Scenario /\ Len(audit_history) = 3) =>
        /\ last_audit_of("a").status = "Warning"
        /\ last_audit_of("b").status = "Healthy"
        /\ last_audit_of("c").status = "Disconnected"
        /\ last_audit_of("c").hypergraph_connections = 0

\* C10: record_activity on an unregistered name leaves the registry, the
\* synergy matrix and the audit history unchanged and adds exactly 1 to
\* total_operations.
C10_ActivityOnUnknownName ==
    [][\A name \in Names, op \in OpTypes, dur \in Durations :
          (~registered(name) /\ RecordActivity(name, op, dur)) =>
             /\ module_registry' = module_registry
             /\ synergy_matrix' = synergy_matrix
             /\ audit_history' = audit_history
             /\ performance_metrics'.total_operations =
                    performance_metrics.total_operations + 1]_vars

\* an activity has been recorded while nothing was registered
C10_Witness ==
    /\ module_registry = <<>>
    /\ performance_metrics.total_operations = 1

\* C11: with every strength passed to establish_connection in [0,1], every
\* synergy score that audit_core_modules computes lies in [0,1], self-edges
\* and edges to unregistered names included.
C11_ScoreInUnitInterval ==
    \A i \in 1..Len(audit_history) :
        /\ RatLe(Zero, audit_history[i].synergy_score)
        /\ RatLe(audit_history[i].synergy_score, One)

\* the arithmetic mean of the synergy_score fields of a non-empty list of
\* audit records
RECURSIVE C12_ScoreSum(_)
C12_ScoreSum(audits) ==
    IF audits = <<>> THEN Zero
    ELSE RatAdd(Head(audits).synergy_score, C12_ScoreSum(Tail(audits)))

C12_ScoreMean(audits) == RatDiv(C12_ScoreSum(audits), <<Len(audits), 1>>)

\* C12: the synergy_coefficient that get_performance_metrics returns right
\* after an audit equals the mean of the synergy_score fields of the records
\* that the audit returned; it is 0 while the registry is empty.
C12_CoefficientIsMean ==
    [][/\ module_registry = <<>> =>
             get_performance_metrics(performance_metrics, module_registry, synergy_matrix)
                 .synergy_coefficient = Zero
       /\ audit_history' /= audit_history =>
             get_performance_metrics(performance_metrics', module_registry', synergy_matrix')
                 .synergy_coefficient =
             C12_ScoreMean(SubSeq(audit_history', Len(audit_history) + 1,
                                  Len(audit_history')))]_vars

\* three modules have been audited with the scores 0.7, 0.7 and 0, and the
\* coefficient of the metrics is 7/15
C12_Witness ==
    /\ Len(module_registry) = 3
    /\ Len(audit_history) = 3
    /\ audit_history[1].synergy_score = Rat(7, 10)
    /\ audit_history[2].synergy_score = Rat(7, 10)
    /\ audit_history[3].synergy_score = Zero
    /\ get_performance_metrics(performance_metrics, module_registry, synergy_matrix)
           .synergy_coefficient = Rat(7, 15)

\* every registered module is connected to every other registered module,
\* and to nothing else, with strength s in the matrix
C13_FullyConnected(s) ==
    \A i \in 1..Len(module_registry) :
        LET name == module_registry[i].name
            others == keys(module_registry) \ {name}
        IN /\ module_registry[i].active_connections = others
           /\ \A y \in others : has_edge(name, y) /\ synergy_matrix[<<name, y>>] = s

\* C13 as stated: for every N >= 1, with N modules connected pairwise at
\* strength s, every module's synergy score is 0.5 + 0.5*s.
C13_FullyConnectedScoreAnyN ==
    \A s \in FullStrengths :
        (Len(module_registry) >= 1 /\ C13_FullyConnected(s)) =>
            \A i \in 1..Len(module_registry) :
                audit_core_modules(module_registry, synergy_matrix, now)[i].synergy_score
                    = RatAdd(Half, RatMul(Half, s))

\* C13, amended: for every N >= 2, with N modules connected pairwise at
\* strength s, every module's synergy score is 0.5 + 0.5*s; a single
\* registered module (N = 1, no pair to connect) has the score 1.
C13_FullyConnectedScore ==
    \A s \in FullStrengths :
        (Len(module_registry) >= 1 /\ C13_FullyConnected(s)) =>
            \A i \in 1..Len(module_registry) :
                audit_core_modules(module_registry, synergy_matrix, now)[i].synergy_score
                    = IF Len(module_registry) = 1 THEN One
                      ELSE RatAdd(Half, RatMul(Half, s))

\* three modules connected pairwise at 0.9 have been audited, each with the
\* score 0.95
C13_Witness ==
    /\ Len(module_registry) = 3
    /\ C13_FullyConnected(Rat(9, 10))
    /\ Len(audit_history) = 3
    /\ \A i \in 1..3 : audit_history[i].synergy_score = Rat(19, 20)

\* a call of a global function of the coordinator, and of the reinforcement
C14_CoordinatorCall ==
    \/ \E name \in GlobalNames : GlobalRegisterModule(name)
    \/ GlobalEstablishConnection("config", "w", Rat(9, 10))
    \/ GlobalRecordActivity("config", "llm_completion", OneMilli)
    \/ GlobalRecordError("config")
    \/ GlobalAuditCoreModules

C14_ReinforcementCall ==
    \/ \E elapsed \in Durations : ValidateConfigurations(elapsed)
    \/ ApplyAutoHealing

\* C14: each singleton is initialised at most once.  An init_* call that
\* finds its cell empty succeeds and stores its instance; one that finds it
\* full fails with "already initialized" and leaves the cell and the
\* coordinator state alone; a stored instance is never replaced (so of any
\* number of calls, by one thread or several, exactly the first to reach the
\* cell succeeds); a global function called before the init of its singleton
\* fails with "not initialized" and changes nothing.
C14_InitializedOnce ==
    [][/\ \A t \in Threads :
             (pc[t] = "init_hypergraph_coordinator" /\ pc'[t] = "idle") =>
                 IF HYPERGRAPH_COORDINATOR.set
                 THEN /\ result' = Err("init_hypergraph_coordinator",
                                        CoordinatorAlreadyInitialized)
                      /\ UNCHANGED <<HYPERGRAPH_COORDINATOR, coordVars>>
                 ELSE /\ result' = Ok("init_hypergraph_coordinator", <<>>)
                      /\ HYPERGRAPH_COORDINATOR' =
                            [set |-> TRUE, instance |-> arg[t].instance]
       /\ \A t \in Threads :
             (pc[t] = "init_config_reinforcement" /\ pc'[t] = "idle") =>
                 IF CONFIG_REINFORCEMENT.set
                 THEN /\ result' = Err("init_config_reinforcement",
                                        ReinforcementAlreadyInitialized)
                      /\ UNCHANGED CONFIG_REINFORCEMENT
                 ELSE /\ result' = Ok("init_config_reinforcement", <<>>)
                      /\ CONFIG_REINFORCEMENT'.set
                      /\ CONFIG_REINFORCEMENT'.instance = arg[t].instance
                      /\ CONFIG_REINFORCEMENT'.config = arg[t].config
       /\ HYPERGRAPH_COORDINATOR.set => UNCHANGED HYPERGRAPH_COORDINATOR
       /\ CONFIG_REINFORCEMENT.set =>
             /\ CONFIG_REINFORCEMENT'.set
             /\ CONFIG_REINFORCEMENT'.instance = CONFIG_REINFORCEMENT.instance
             /\ CONFIG_REINFORCEMENT'.config = CONFIG_REINFORCEMENT.config
       /\ (~HYPERGRAPH_COORDINATOR.set /\ C14_CoordinatorCall) =>
             /\ result'.error = CoordinatorNotInitialized
             /\ UNCHANGED <<coordVars, HYPERGRAPH_COORDINATOR, CONFIG_REINFORCEMENT>>
       /\ (~CONFIG_REINFORCEMENT.set /\ C14_ReinforcementCall) =>
             /\ result'.error = ReinforcementNotInitialized
             /\ UNCHANGED <<coordVars, HYPERGRAPH_COORDINATOR, CONFIG_REINFORCEMENT>>]_vars

\* two init_hypergraph_coordinator calls overlapped: the instance built
\* second was stored, a module was registered in it, and then the other
\* call failed
C14_Witness ==
    /\ HYPERGRAPH_COORDINATOR = [set |-> TRUE, instance |-> 2]
    /\ registered("config")
    /\ result = Err("init_hypergraph_coordinator", CoordinatorAlreadyInitialized)

\* the records that a step has appended to the audit history
C15_Audited == SubSeq(audit_history', Len(audit_history) + 1, Len(audit_history'))

\* C15: apply_auto_healing with the flag set, the coordinator initialised and
\* "config" registered: every module W that its audit classified
\* Disconnected is afterwards connected to "config" in both connection sets,
\* with 0.5 in the matrix for (W,config) and (config,W), and an audit of the
\* resulting state classifies no module as Disconnected.
C15_AutoHealingReconnects ==
    [][(/\ CONFIG_REINFORCEMENT.set
        /\ CONFIG_REINFORCEMENT.config.enable_auto_healing
        /\ HYPERGRAPH_COORDINATOR.set
        /\ registered("config")
        /\ ApplyAutoHealing) =>
          /\ \A i \in 1..Len(C15_Audited) :
                C15_Audited[i].status = "Disconnected" =>
                    LET W == C15_Audited[i].module_name
                    IN /\ "config" \in get(module_registry', W).active_connections
                       /\ W \in get(module_registry', "config").active_connections
                       /\ <<W, "config">> \in DOMAIN synergy_matrix'
                       /\ <<"config", W>> \in DOMAIN synergy_matrix'
                       /\ synergy_matrix'[<<W, "config">>] = Half
                       /\ synergy_matrix'[<<"config", W>>] = Half
          /\ \A j \in 1..Len(module_registry') :
                audit_core_modules(module_registry', synergy_matrix', now')[j].status
                    /= "Disconnected"]_vars

\* apply_auto_healing has just reconnected w, the only Disconnected module
C15_Witness ==
    /\ result = Ok("apply_auto_healing", <<"Reconnected disconnected module 'w'">>)
    /\ registered("config") /\ registered("w")
    /\ "config" \in module("w").active_connections
    /\ "w" \in module("config").active_connections
    /\ has_edge("w", "config") /\ synergy_matrix[<<"w", "config">>] = Half
    /\ has_edge("config", "w") /\ synergy_matrix[<<"config", "w">>] = Half

\* C16: with enable_auto_healing false, apply_auto_healing returns an empty
\* list and leaves the registry, the matrix, the performance metrics and the
\* audit history unchanged.
C16_AutoHealingDisabled ==
    [][(/\ CONFIG_REINFORCEMENT.set
        /\ ~CONFIG_REINFORCEMENT.config.enable_auto_healing
        /\ ApplyAutoHealing) =>
          /\ result' = Ok("apply_auto_healing", <<>>)
          /\ UNCHANGED <<module_registry, synergy_matrix, performance_metrics,
                         audit_history>>]_vars

\* apply_auto_healing has returned the empty list although w has no
\* connection and no audit has run
C16_Witness ==
    /\ result = Ok("apply_auto_healing", <<>>)
    /\ ~CONFIG_REINFORCEMENT.config.enable_auto_healing
    /\ HYPERGRAPH_COORDINATOR.set
    /\ registered("w") /\ module("w").active_connections = {}
    /\ audit_history = <<>>

\* C17: with the reinforcement initialised, validate_configurations and
\* apply_auto_healing return Ok with a list of strings, never an error, also
\* when the coordinator is not initialised.
C17_NoErrorPropagated ==
    [][(CONFIG_REINFORCEMENT.set /\ C14_ReinforcementCall) => result'.error = ""]_vars

\* C18: total_operations never decreases; it grows by exactly 1 in the step
\* in which a record_activity call of some thread completes, on a registered
\* name or not, and no other step of any operation changes it: so it equals
\* the number of record_activity calls that have completed.
C18_TotalOperationsCounted ==
    [][performance_metrics'.total_operations =
          performance_metrics.total_operations
          + Cardinality({t \in Threads :
                            pc[t] = "record_activity_perf" /\ pc'[t] = "idle"})]_vars

\* two record_activity calls have completed, one before the name was
\* registered and one after
C18_Witness ==
    /\ performance_metrics.total_operations = 2
    /\ registered("a") /\ module("a").message_count = 1
    /\ \A t \in Threads : pc[t] = "idle"

\* the names of a registry, in its order
C19_Names(reg) == [i \in 1..Len(reg) |-> reg[i].name]

\* C19: the registry keeps its names in the order of their first
\* registration (a step only ever adds names at the end; re-registration
\* moves nothing), each name once; audit_core_modules appends to the
\* history exactly one record per registered module, in that order, each
\* with the size of the module's active_connections as its connection count.
C19_AuditInRegistrationOrder ==
    [][/\ Len(module_registry') >= Len(module_registry)
       /\ SubSeq(C19_Names(module_registry'), 1, Len(module_registry))
             = C19_Names(module_registry)
       /\ \A i, j \in 1..Len(module_registry') :
             module_registry'[i].name = module_registry'[j].name => i = j
       /\ audit_history' /= audit_history =>
             /\ Len(audit_history') = Len(audit_history) + Len(module_registry)
             /\ SubSeq(audit_history', 1, Len(audit_history)) = audit_history
             /\ \A i \in 1..Len(module_registry) :
                   LET r == audit_history'[Len(audit_history) + i]
                   IN /\ r.module_name = module_registry[i].name
                      /\ r.hypergraph_connections =
                            Cardinality(module_registry[i].active_connections)]_vars

\* a was registered first, connected to b and registered again: it is still
\* first, and the audit has reported a with 0 and b with 1 connection
C19_Witness ==
    /\ C19_Names(module_registry) = <<"a", "b">>
    /\ module("a").active_connections = {}
    /\ module("b").active_connections = {"a"}
    /\ Len(audit_history) = 2
    /\ audit_history[1].module_name = "a" /\ audit_history[1].hypergraph_connections = 0
    /\ audit_history[2].module_name = "b" /\ audit_history[2].hypergraph_connections = 1

C21_ReRegistrationFrame ==
    [][\A name \in Names :
          (registered(name) /\ RegisterModule(name)) =>
             /\ Len(module_registry') = Len(module_registry)
             /\ \A i \in 1..Len(module_registry) :
                   IF module_registry[i].name = name
                   THEN /\ module_registry'[i].name = name
                        /\ module_registry'[i].message_count = 0
                        /\ module_registry'[i].error_count = 0
                        /\ module_registry'[i].active_connections = {}
                        /\ module_registry'[i].cognitive_load = Zero
                   ELSE module_registry'[i] = module_registry[i]
             /\ synergy_matrix' = synergy_matrix
             /\ performance_metrics' = performance_metrics
             /\ audit_history' = audit_history]_vars

\* a was registered before b, was connected to b and audited with that
\* connection, and has been registered again: its record is fresh, while b,
\* the matrix and the history still tell of the connection
C21_Witness ==
    /\ C19_Names(module_registry) = <<"a", "b">>
    /\ module("a").active_connections = {}
    /\ module("a").message_count = 0
    /\ module("b").active_connections = {"a"}
    /\ has_edge("a", "b") /\ has_edge("b", "a")
    /\ Len(audit_history) = 2
    /\ audit_history[1].hypergraph_connections = 1

\* C22: the counters of a registered module count the calls made on its name
\* since it was last registered: a registration sets both to 0,
\* record_activity on the name adds one to message_count, record_error on
\* the name adds one to error_count, and no other step changes either;
\* record_error on an unregistered name changes nothing, and record_error
\* never changes total_operations.
C22_CountersSinceRegistration ==
    [][\A name \in Names :
          LET activity == \E op \in OpTypes, dur \in Durations : RecordActivity(name, op, dur)
          IN /\ RegisterModule(name) =>
                   /\ get(module_registry', name).message_count = 0
                   /\ get(module_registry', name).error_count = 0
             /\ RecordError(name) =>
                   /\ performance_metrics' = performance_metrics
                   /\ ~registered(name) => UNCHANGED vars
             /\ (registered(name) /\ ~RegisterModule(name)) =>
                   /\ contains_key(module_registry', name)
                   /\ get(module_registry', name).message_count =
                         module(name).message_count + (IF activity THEN 1 ELSE 0)
                   /\ get(module_registry', name).error_count =
                         module(name).error_count + (IF RecordError(name) THEN 1 ELSE 0)]_vars

\* a was registered before b, connected to b and registered again; since
\* then one record_activity and one record_error were made on a, and two
\* record_activity calls were made in all
C22_Witness ==
    /\ C19_Names(module_registry) = <<"a", "b">>
    /\ module("b").active_connections = {"a"}
    /\ module("a").active_connections = {}
    /\ module("a").message_count = 1
    /\ module("a").error_count = 1
    /\ module("b").message_count = 0
    /\ performance_metrics.total_operations = 2

\* C23: the memory_usage of every module is 0 in every reachable state,
\* whatever the coordinator and the reinforcement have done, and so
\* get_performance_metrics reports a memory_efficiency of 1.0, with or
\* without recorded activity.
C23_MemoryEfficiencyIsOne ==
    /\ \A i \in 1..Len(module_registry) : module_registry[i].memory_usage = 0
    /\ get_performance_metrics(performance_metrics, module_registry, synergy_matrix)
          .memory_efficiency = One

\* a validation has recorded its two activities on "config", and auto-healing
\* has then connected w to it
C23_Witness ==
    /\ registered("config") /\ registered("w")
    /\ module("config").message_count = 2
    /\ performance_metrics.total_operations = 2
    /\ "config" \in module("w").active_connections
    /\ result.call = "apply_auto_healing"
    /\ result.value /= <<>>

\* C24: the locks are taken in one order: whoever has claimed the matrix for
\* writing has the registry write guard, no call asks for the registry lock
\* while it holds a guard of the matrix, the performance metrics or the
\* history, and no call asks for a lock it already holds a guard of.
C24_LockOrder ==
    \A t \in Threads :
        /\ rwlock["synergy_matrix"].writer = t => write_granted("module_registry", t)
        /\ requests(t, "module_registry") =>
              /\ ~holds(t, "synergy_matrix")
              /\ ~holds(t, "performance_metrics")
              /\ ~holds(t, "audit_history")
        /\ \A l \in Locks : requests(t, l) => ~holds(t, l)

\* C25: a validate_configurations call runs the scheduled audit exactly when
\* at least audit_interval_seconds have passed since last_audit: then the
\* audit records of the current time are appended, every earlier record is at
\* least audit_interval_seconds older, and last_audit becomes the current
\* time; otherwise last_audit and the audit history stay as they are.
C25_ScheduledAuditWhenDue ==
    [][(\E elapsed \in Durations : ValidateConfigurations(elapsed)) =>
          LET interval == CONFIG_REINFORCEMENT.config.audit_interval_seconds
          IN IF now - CONFIG_REINFORCEMENT.last_audit >= interval
             THEN /\ CONFIG_REINFORCEMENT'.last_audit = now
                  /\ Len(audit_history') = Len(audit_history) + Len(module_registry)
                  /\ \A i \in 1..Len(audit_history') :
                        IF i <= Len(audit_history)
                        THEN /\ audit_history'[i] = audit_history[i]
                             /\ now - audit_history[i].last_checked >= interval
                        ELSE audit_history'[i].last_checked = now
             ELSE /\ CONFIG_REINFORCEMENT'.last_audit = CONFIG_REINFORCEMENT.last_audit
                  /\ audit_history' = audit_history]_vars

\* the recommendation for the total of n operations
C26_HighErrorRate(n) ==
    "High error rate detected (" \o format_1(Rat(n, 10))
        \o "). Consider implementing circuit breakers."

\* C26: a validate_configurations call recommends "High error rate detected"
\* exactly when the total_operations that its check sees, which counts the
\* activity recorded at the start of the call, times 0.1 exceeds
\* max_module_errors: with the default of 20, exactly when that total is
\* above 200, whatever the error_count of the modules.
C26_HighErrorRateThreshold ==
    [][(\E elapsed \in Durations : ValidateConfigurations(elapsed)) =>
          LET seen == performance_metrics.total_operations + 1
              limit == CONFIG_REINFORCEMENT.config.max_module_errors
              emitted == \E i \in 1..Len(result'.value), n \in 1..(seen + 1) :
                             result'.value[i] = C26_HighErrorRate(n)
          IN /\ result'.error = ""
             /\ emitted <=> RatLt(<<limit, 1>>, RatMul(<<seen, 1>>, Rat(1, 10)))
             /\ limit = 20 => (emitted <=> seen > 200)
             /\ emitted => \E i \in 1..Len(result'.value) :
                               result'.value[i] = C26_HighErrorRate(seen)]_vars

\* a validation that began at 200 operations has seen 201 and has made the
\* recommendation, while no module has an error
C26_Witness ==
    /\ result.call = "validate_configurations"
    /\ \E i \in 1..Len(result.value) : result.value[i] = C26_HighErrorRate(201)
    /\ performance_metrics.total_operations = 202
    /\ registered("w") /\ module("w").error_count = 0

\* the thread takes a step of a call of the kind whose program points are given
C27_StepOf(t, entry, points) ==
    /\ pc'[t] /= pc[t] \/ idx'[t] /= idx[t]
    /\ \/ pc[t] \in points
       \/ pc[t] = "idle" /\ pc'[t] = entry

\* C27: audit_core_modules and get_performance_metrics only read the model
\* state: no step of an audit_core_modules call changes the registry, the
\* synergy matrix, total_operations or average_response_time (it changes the
\* audit history alone), and no step of a get_performance_metrics call
\* changes any of these or the audit history.
C27_ReadOnly ==
    [][\A t \in Threads :
          /\ C27_StepOf(t, "audit_core_modules",
                        {"audit_core_modules", "audit_loop", "audit_store"}) =>
                /\ module_registry' = module_registry
                /\ synergy_matrix' = synergy_matrix
                /\ performance_metrics' = performance_metrics
          /\ C27_StepOf(t, "get_performance_metrics",
                        {"get_performance_metrics", "metrics_matrix", "metrics_loop"}) =>
                /\ module_registry' = module_registry
                /\ synergy_matrix' = synergy_matrix
                /\ performance_metrics' = performance_metrics
                /\ audit_history' = audit_history]_vars

\* a has a message, an error and a connection; an audit has stored its
\* record and a get_performance_metrics call has come to its last step
C27_Witness ==
    /\ registered("a")
    /\ module("a").message_count = 1
    /\ module("a").error_count = 1
    /\ module("a").active_connections = {"b"}
    /\ has_edge("a", "b")
    /\ Len(audit_history) = 1
    /\ audit_history[1].hypergraph_connections = 1
    /\ \E t \in Threads : pc[t] = "metrics_loop" /\ idx[t] > Len(module_registry)

\* the number of audits with the status Disconnected
C28_Disconnected(audits) ==
    Cardinality({i \in 1..Len(audits) : audits[i].status = "Disconnected"})

\* C28: apply_auto_healing connects only the modules that its audit finds
\* Disconnected: it reports one reconnection for each of them; a module
\* other than "config" that has no connections and more than 10 errors has
\* no connections afterwards either; and a module other than "config" that
\* is not Disconnected keeps its record and the matrix entries it is part of.
C28_HealsOnlyDisconnected ==
    [][(result'.call = "apply_auto_healing" /\ ApplyAutoHealing) =>
          LET audits == audit_core_modules(module_registry, synergy_matrix, now)
          IN /\ Len(result'.value) = C28_Disconnected(audits)
             /\ Len(module_registry') = Len(module_registry)
             /\ \A i \in 1..Len(module_registry) :
                   LET name == module_registry[i].name
                   IN /\ (/\ name /= "config"
                          /\ module_registry[i].active_connections = {}
                          /\ module_registry[i].error_count > 10) =>
                             module_registry'[i].active_connections = {}
                      /\ (name /= "config" /\ audits[i].status /= "Disconnected") =>
                             /\ module_registry'[i] = module_registry[i]
                             /\ \A p \in DOMAIN synergy_matrix' :
                                   (p[1] = name \/ p[2] = name) =>
                                       /\ p \in DOMAIN synergy_matrix
                                       /\ synergy_matrix'[p] = synergy_matrix[p]]_vars

\* auto-healing has run twice on w, which has 11 errors and no connection,
\* and has connected x to "config" but not w
C28_Witness ==
    /\ registered("w") /\ registered("x") /\ registered("config")
    /\ module("w").error_count = 11
    /\ module("w").active_connections = {}
    /\ module("x").active_connections = {"config"}
    /\ result.call = "apply_auto_healing"
    /\ Len(audit_history) >= 4
    /\ \E i \in 1..Len(audit_history) :
          audit_history[i].module_name = "w" /\ audit_history[i].status = "Critical"

====
